---- MODULE Spec2Model ----
(***************************************************************************)
(* GroupTabs API (v1) of payfriends-mvp: the Express handlers that          *)
(* src/update_server.py splices into server.js.                            *)
(*                                                                         *)
(* State: the four SQLite tables the handlers read and write, and the      *)
(* position of the settlement handler inside its while loop.  Every db     *)
(* call is synchronous (better-sqlite3), so a handler runs to completion   *)
(* before the next request is served: a handler is one atomic action; the  *)
(* settlement handler is stepped one loop iteration at a time, and no      *)
(* other handler runs while it is on the stack.                            *)
(*                                                                         *)
(* A handler is a function of the store and the request: XResult(..) is    *)
(* what it answers (status, error text, reported participant id) together  *)
(* with the rows it writes, and the action X(..) applies those writes.     *)
(* An INSERT either runs or throws (constraint violation, db error); the   *)
(* handler's catch block then answers 500.  SELECTs are taken to succeed.  *)
(*                                                                         *)
(* Money: the handler computes balance = paid - totalExpenses / n in       *)
(* real-valued arithmetic.  The model keeps every balance and transfer     *)
(* amount multiplied by n (the participant count of the tab), so that all  *)
(* values are integers: sbal = n * paid - totalExpenses, and the           *)
(* threshold 10 becomes 10 * n.  A value is a whole number of minor units  *)
(* iff its scaled value is divisible by n.  The arithmetic is exact: the   *)
(* rounding of IEEE doubles is not modelled.                               *)
(***************************************************************************)
EXTENDS Integers, Sequences, FiniteSets, TLC

\* ---------------------------------------------------------------- bounds
MaxTabs == 2
MaxParts == 3
MaxExpenses == 1
MaxPayments == 1
\* rows in the whole store
MaxRows == 5

\* ------------------------------------------------------- input alphabets
Users == {"u1", "u2"}
NoUser == "anon"
Tokens == {"k1", "k2"}
NoToken == "none"
Names == {"ann"}
NoName == ""
Titles == {"", "trip"}
Types == {"", "one_bill"}
Amounts == {25}
THRESHOLD == 10

VARIABLES tabs, participants, expenses, payments, calc

vars == <<tabs, participants, expenses, payments, calc>>
store == <<tabs, participants, expenses, payments>>

\* ----------------------------------------------------------- row lookups
TabIds == 1..Len(tabs)
PartIds == 1..Len(participants)
ReqTabIds == 1..MaxTabs

Min(S) == CHOOSE x \in S : \A y \in S : x <= y

\* FindByUser with the lookup restricted to rows of role 'member'
FindByUserMembersOnly(t, u) ==
  LET m == {i \in 1..Len(participants) :
              /\ participants[i].tab = t
              /\ participants[i].user = u
              /\ participants[i].role = "member"}
  IN IF u = NoUser \/ m = {} THEN 0 ELSE Min(m)

\* db.prepare('SELECT * ... WHERE group_tab_id = ? AND user_id = ?').get():
\* the first matching row, 0 for undefined
FindByUser(t, u) ==
  LET m == {i \in PartIds : participants[i].tab = t /\ participants[i].user = u}
  IN IF u = NoUser \/ m = {} THEN 0 ELSE Min(m)

\* FindByToken with the tab id left out of the WHERE clause
FindByTokenAnyTab(t, tok) ==
  LET m == {i \in 1..Len(participants) : participants[i].token = tok}
  IN IF m = {} THEN 0 ELSE Min(m)

\* SELECT ... WHERE group_tab_id = ? AND magic_link_token = ?
FindByToken(t, tok) ==
  LET m == {i \in PartIds : participants[i].tab = t /\ participants[i].token = tok}
  IN IF m = {} THEN 0 ELSE Min(m)

getGuestParticipant(cookie, t) ==
  IF cookie = NoToken THEN 0 ELSE FindByToken(t, cookie)

\* SELECT * FROM group_tab_participants WHERE group_tab_id = ?
TabParts(t) == {i \in PartIds : participants[i].tab = t}

Participant(t, u, role, name, tok) ==
  [tab |-> t, user |-> u, role |-> role, name |-> name, token |-> tok]

defaultConfig(type) ==
  IF type = "one_bill" THEN "split_mode_equal" ELSE "receipt_required"

\* the store's uniqueness constraint on the magic_link_token column
TokenUnique(tok) == \A i \in PartIds : participants[i].token # tok

\* what a handler answers and writes
Result(status, err, pid, rows) ==
  [status |-> status, err |-> err, pid |-> pid, rows |-> rows]

\* rows in the four tables
RowCount == Len(tabs) + Len(participants) + Len(expenses) + Len(payments)

\* ----------------------------------------------------------------- Init
NoCalc == [pc |-> "idle"]

Init ==
  /\ tabs = << >>
  /\ participants = << >>
  /\ expenses = << >>
  /\ payments = << >>
  /\ calc = NoCalc

\* a handler starts only when no other callback is on the stack
Idle == calc.pc = "idle"

\* ------------------------------------------------- POST /api/grouptabs
\* tabOk / orgOk: whether the INSERT statement runs or throws.  The two
\* INSERTs are separate autocommitted statements: rows is the tab rows
\* written, orgs the participant rows written.
CreateTabResult(u, title, type, tabOk, orgOk) ==
  LET tabId == Len(tabs) + 1
      tab == [creator |-> u, type |-> type, config |-> defaultConfig(type)]
  IN IF title = "" \/ type = ""
     THEN [status |-> 400, err |-> "Title and type required", rows |-> << >>, orgs |-> << >>]
     ELSE IF ~tabOk
     THEN [status |-> 500, err |-> "Failed to create tab", rows |-> << >>, orgs |-> << >>]
     ELSE IF ~orgOk
     THEN [status |-> 500, err |-> "Failed to create tab", rows |-> <<tab>>, orgs |-> << >>]
     ELSE [status |-> 201, err |-> "", rows |-> <<tab>>,
           orgs |-> <<Participant(tabId, u, "organizer", NoName, NoToken)>>]

CreateTab(u, title, type, tabOk, orgOk) ==
  LET r == CreateTabResult(u, title, type, tabOk, orgOk)
  IN /\ Idle
     /\ Len(tabs) + Len(r.rows) <= MaxTabs
     /\ RowCount + Len(r.rows) + Len(r.orgs) <= MaxRows
     /\ Len(participants) + Len(r.orgs) <= MaxParts
     /\ tabs' = tabs \o r.rows
     /\ participants' = participants \o r.orgs
     /\ UNCHANGED <<expenses, payments, calc>>

\* -------------------------------------------------- GET /api/grouptabs
\* rows: the ids of the tabs listed
ListTabsResult(u) ==
  Result(200, "", 0, {t \in TabIds : \E i \in PartIds :
                         participants[i].tab = t /\ participants[i].user = u})

ListTabs(u) ==
  /\ Idle
  /\ ListTabsResult(u).status = 200
  /\ UNCHANGED vars

\* ---------------------------------------------- GET /api/grouptabs/:id
\* pid: currentParticipant; rows: the ids of the participants returned
GetTabResult(t, u, cookie) ==
  LET participant == IF u # NoUser THEN FindByUser(t, u)
                     ELSE getGuestParticipant(cookie, t)
  IN IF t \notin TabIds
     THEN Result(404, "Tab not found", 0, {})
     ELSE Result(200, "", participant, TabParts(t))

GetTab(t, u, cookie) ==
  /\ Idle
  /\ GetTabResult(t, u, cookie).status \in {200, 404}
  /\ UNCHANGED vars

\* JoinResult without the lookup of an existing row of the user
JoinResultNoExisting(t, u, name, token, newToken, ok) ==
  LET newId == Len(participants) + 1
  IN IF t \notin TabIds
     THEN Result(404, "Tab not found", 0, << >>)
     ELSE IF u # NoUser
     THEN IF ~ok
          THEN Result(500, "Join failed", 0, << >>)
          ELSE Result(200, "", newId,
                      <<Participant(t, u, "member", NoName, NoToken)>>)
     ELSE IF token # NoToken
     THEN LET existing == FindByToken(t, token)
          IN IF existing = 0
             THEN Result(404, "Invalid token", 0, << >>)
             ELSE Result(200, "", existing, << >>)
     ELSE IF name = NoName
     THEN Result(400, "Name required", 0, << >>)
     ELSE IF ~ok \/ ~TokenUnique(newToken)
     THEN Result(500, "Join failed", 0, << >>)
     ELSE Result(200, "", newId,
                 <<Participant(t, NoUser, "guest", name, newToken)>>)

\* ---------------------------------------- POST /api/grouptabs/:id/join
\* token: req.body.token; newToken: the value crypto.randomBytes returns;
\* ok: whether the INSERT statement runs or throws.  pid: the id of the
\* participant reported (participant.id or participantId).
JoinResult(t, u, name, token, newToken, ok) ==
  LET newId == Len(participants) + 1
  IN IF t \notin TabIds
     THEN Result(404, "Tab not found", 0, << >>)
     ELSE IF u # NoUser
     THEN LET existing == FindByUser(t, u)
          IN IF existing # 0
             THEN Result(200, "", existing, << >>)
             ELSE IF ~ok
             THEN Result(500, "Join failed", 0, << >>)
             ELSE Result(200, "", newId,
                         <<Participant(t, u, "member", NoName, NoToken)>>)
     ELSE IF token # NoToken
     THEN LET existing == FindByToken(t, token)
          IN IF existing = 0
             THEN Result(404, "Invalid token", 0, << >>)
             ELSE Result(200, "", existing, << >>)
     ELSE IF name = NoName
     THEN Result(400, "Name required", 0, << >>)
     ELSE IF ~ok \/ ~TokenUnique(newToken)
     THEN Result(500, "Join failed", 0, << >>)
     ELSE Result(200, "", newId,
                 <<Participant(t, NoUser, "guest", name, newToken)>>)

Join(t, u, name, token, newToken, ok) ==
  LET r == JoinResult(t, u, name, token, newToken, ok)
  IN /\ Idle
     /\ Len(participants) + Len(r.rows) <= MaxParts
     /\ RowCount + Len(r.rows) <= MaxRows
     /\ participants' = participants \o r.rows
     /\ UNCHANGED <<tabs, expenses, payments, calc>>

\* AddExpenseResult with the payer looked up by user id alone
AddExpenseResultAnyTab(t, u, amountCents, ok) ==
  LET m == {i \in PartIds : participants[i].user = u}
      p == IF m = {} THEN 0 ELSE Min(m)
  IN IF u = NoUser
     THEN Result(403, "Must be logged in", 0, << >>)
     ELSE IF p = 0
     THEN Result(403, "Not participant", 0, << >>)
     ELSE IF ~ok
     THEN Result(500, "Failed", 0, << >>)
     ELSE Result(200, "", 0, <<[tab |-> t, payer |-> p, amount |-> amountCents]>>)

\* AddExpenseResult without the req.user check, the payer resolved the way
\* the payment handler resolves its sender: a guest row of the tab when no
\* user is logged in
AddExpenseResultGuestPayer(t, u, amountCents, ok) ==
  LET g == {i \in PartIds : participants[i].tab = t /\ participants[i].role = "guest"}
      p == IF u # NoUser THEN FindByUser(t, u) ELSE IF g = {} THEN 0 ELSE Min(g)
  IN IF p = 0
     THEN Result(403, "Not participant", 0, << >>)
     ELSE IF ~ok
     THEN Result(500, "Failed", 0, << >>)
     ELSE Result(200, "", 0, <<[tab |-> t, payer |-> p, amount |-> amountCents]>>)

\* ------------------------------------ POST /api/grouptabs/:id/expenses
AddExpenseResult(t, u, amountCents, ok) ==
  LET p == FindByUser(t, u)
  IN IF u = NoUser
     THEN Result(403, "Must be logged in", 0, << >>)
     ELSE IF p = 0
     THEN Result(403, "Not participant", 0, << >>)
     ELSE IF ~ok
     THEN Result(500, "Failed", 0, << >>)
     ELSE Result(200, "", 0, <<[tab |-> t, payer |-> p, amount |-> amountCents]>>)

AddExpense(t, u, amountCents, ok) ==
  LET r == AddExpenseResult(t, u, amountCents, ok)
  IN /\ Idle
     /\ Len(expenses) + Len(r.rows) <= MaxExpenses
     /\ RowCount + Len(r.rows) <= MaxRows
     /\ expenses' = expenses \o r.rows
     /\ UNCHANGED <<tabs, participants, payments, calc>>

\* ------------------------------------ POST /api/grouptabs/:id/payments
\* cookie: req.cookies.grouptab_guest_session.  toParticipantId is drawn
\* from the ids of the rows that exist (of any tab), so that the INSERT
\* succeeds whether or not the column is declared a foreign key.
AddPaymentResult(t, u, cookie, toParticipantId, amountCents, ok) ==
  LET fromId == IF u # NoUser THEN FindByUser(t, u)
                ELSE getGuestParticipant(cookie, t)
  IN IF fromId = 0
     THEN Result(403, "Not participant", 0, << >>)
     ELSE IF ~ok
     THEN Result(500, "Failed", 0, << >>)
     ELSE Result(200, "", 0, <<[tab |-> t, from |-> fromId, to |-> toParticipantId,
                                amount |-> amountCents]>>)

AddPayment(t, u, cookie, toParticipantId, amountCents, ok) ==
  LET r == AddPaymentResult(t, u, cookie, toParticipantId, amountCents, ok)
  IN /\ Idle
     /\ toParticipantId \in PartIds
     /\ Len(payments) + Len(r.rows) <= MaxPayments
     /\ RowCount + Len(r.rows) <= MaxRows
     /\ payments' = payments \o r.rows
     /\ UNCHANGED <<tabs, participants, expenses, calc>>

\* ---------------------------------- GET /api/grouptabs/:id/settlement
RECURSIVE SumAmounts(_, _)
\* rows.reduce((s, r) => s + r.amount, 0) over the rows with index in S
SumAmounts(rows, S) ==
  IF S = {} THEN 0
  ELSE LET i == Min(S) IN rows[i].amount + SumAmounts(rows, S \ {i})

\* SELECT * FROM group_tab_expenses / group_tab_payments WHERE group_tab_id = ?
TabExpenses(t) == {i \in 1..Len(expenses) : expenses[i].tab = t}
TabPayments(t) == {i \in 1..Len(payments) : payments[i].tab = t}

totalExpenses(t) == SumAmounts(expenses, TabExpenses(t))

\* paid with the payments received added instead of subtracted
paidReceivedAdded(t, p) ==
    SumAmounts(expenses, {i \in TabExpenses(t) : expenses[i].payer = p})
  + SumAmounts(payments, {i \in TabPayments(t) : payments[i].from = p})
  + SumAmounts(payments, {i \in TabPayments(t) : payments[i].to = p})

paid(t, p) ==
    SumAmounts(expenses, {i \in TabExpenses(t) : expenses[i].payer = p})
  + SumAmounts(payments, {i \in TabPayments(t) : payments[i].from = p})
  - SumAmounts(payments, {i \in TabPayments(t) : payments[i].to = p})

\* participants.length
Count(t) == Cardinality(TabParts(t))

\* ScaledBalance with fairShare = totalExpenses, the division left out
ScaledBalanceUndivided(t, p) == Count(t) * paid(t, p) - Count(t) * totalExpenses(t)

\* balance = paid - fairShare with fairShare = totalExpenses / n, times n
ScaledBalance(t, p) == Count(t) * paid(t, p) - totalExpenses(t)

Balances(t) == [p \in TabParts(t) |-> ScaledBalance(t, p)]

Abs(x) == IF x < 0 THEN -x ELSE x

RECURSIVE SortAsc(_, _)
\* S in row order, stably sorted by ascending bal
SortAsc(S, bal) ==
  IF S = {} THEN << >>
  ELSE LET x == CHOOSE a \in S : \A b \in S :
                  bal[a] < bal[b] \/ (bal[a] = bal[b] /\ a <= b)
       IN <<x>> \o SortAsc(S \ {x}, bal)

RECURSIVE SortDesc(_, _)
\* S in row order, stably sorted by descending bal
SortDesc(S, bal) ==
  IF S = {} THEN << >>
  ELSE LET x == CHOOSE a \in S : \A b \in S :
                  bal[a] > bal[b] \/ (bal[a] = bal[b] /\ a <= b)
       IN <<x>> \o SortDesc(S \ {x}, bal)

\* Debtors with the threshold left out of the filter: b.balance < 0
DebtorsBelowZero(t, bal) ==
  SortAsc({p \in TabParts(t) : bal[p] < 0}, bal)

\* balances.filter(b => b.balance < -10).sort(...)
Debtors(t, bal) ==
  SortAsc({p \in TabParts(t) : bal[p] < -(THRESHOLD * Count(t))}, bal)

\* balances.filter(b => b.balance > 10).sort(...)
Creditors(t, bal) ==
  SortDesc({p \in TabParts(t) : bal[p] > THRESHOLD * Count(t)}, bal)

\* debtor.guest_name || debtor.id
Label(p) ==
  IF participants[p].name # NoName
  THEN [kind |-> "name", name |-> participants[p].name, id |-> 0]
  ELSE [kind |-> "id", name |-> NoName, id |-> p]

\* the handler up to the loop: reads the rows, computes the balances, sorts.
\* debtors and creditors hold the objects of balances (by participant id):
\* the loop's writes to debtor.balance are writes to balances.
SettlementBegin(t) ==
  /\ Idle
  /\ calc' = [pc |-> "loop", tab |-> t, n |-> Count(t),
              balances |-> Balances(t),
              debtors |-> Debtors(t, Balances(t)),
              creditors |-> Creditors(t, Balances(t)),
              d |-> 1, c |-> 1, suggestions |-> << >>]
  /\ UNCHANGED store

LoopGuard ==
  /\ calc.pc = "loop"
  /\ calc.d <= Len(calc.debtors)
  /\ calc.c <= Len(calc.creditors)

\* SettleStep with Math.abs left out of the amount:
\* amount = Math.min(debtor.balance, creditor.balance)
SettleStepAmountNoAbs ==
  /\ LoopGuard
  /\ LET debtor == calc.debtors[calc.d]
         creditor == calc.creditors[calc.c]
         amount == IF calc.balances[debtor] <= calc.balances[creditor]
                   THEN calc.balances[debtor] ELSE calc.balances[creditor]
         bal == [calc.balances EXCEPT ![debtor] = @ + amount,
                                      ![creditor] = @ - amount]
     IN calc' = [calc EXCEPT
          !.suggestions = Append(@, [from |-> Label(debtor), to |-> Label(creditor),
                                     amount |-> amount]),
          !.balances = bal,
          !.d = IF Abs(bal[debtor]) < THRESHOLD * calc.n THEN @ + 1 ELSE @,
          !.c = IF bal[creditor] < THRESHOLD * calc.n THEN @ + 1 ELSE @]
  /\ UNCHANGED store

\* one iteration of the while loop
SettleStep ==
  /\ LoopGuard
  /\ LET debtor == calc.debtors[calc.d]
         creditor == calc.creditors[calc.c]
         amount == IF Abs(calc.balances[debtor]) <= calc.balances[creditor]
                   THEN Abs(calc.balances[debtor]) ELSE calc.balances[creditor]
         bal == [calc.balances EXCEPT ![debtor] = @ + amount,
                                      ![creditor] = @ - amount]
     IN calc' = [calc EXCEPT
          !.suggestions = Append(@, [from |-> Label(debtor), to |-> Label(creditor),
                                     amount |-> amount]),
          !.balances = bal,
          !.d = IF Abs(bal[debtor]) < THRESHOLD * calc.n THEN @ + 1 ELSE @,
          !.c = IF bal[creditor] < THRESHOLD * calc.n THEN @ + 1 ELSE @]
  /\ UNCHANGED store

\* the loop has ended: res.json({ success: true, suggestions, balances })
Answering == calc.pc = "loop" /\ ~LoopGuard

SettlementSend ==
  /\ Answering
  /\ calc' = NoCalc
  /\ UNCHANGED store

Next ==
  \/ \E u \in Users, title \in Titles, type \in Types, tabOk \in BOOLEAN, orgOk \in BOOLEAN :
       CreateTab(u, title, type, tabOk, orgOk)
  \/ \E u \in Users : ListTabs(u)
  \/ \E t \in ReqTabIds, u \in Users \cup {NoUser}, cookie \in Tokens \cup {NoToken} :
       GetTab(t, u, cookie)
  \/ \E t \in ReqTabIds, u \in Users \cup {NoUser}, name \in Names \cup {NoName},
        token \in Tokens \cup {NoToken}, newToken \in Tokens, ok \in BOOLEAN :
       Join(t, u, name, token, newToken, ok)
  \/ \E t \in ReqTabIds, u \in Users \cup {NoUser}, a \in Amounts, ok \in BOOLEAN :
       AddExpense(t, u, a, ok)
  \/ \E t \in ReqTabIds, u \in Users \cup {NoUser}, cookie \in Tokens \cup {NoToken},
        to \in 1..MaxParts, a \in Amounts, ok \in BOOLEAN :
       AddPayment(t, u, cookie, to, a, ok)
  \/ \E t \in ReqTabIds : SettlementBegin(t)
  \/ SettleStep
  \/ SettlementSend

\* Next with the amountCents of the expense and payment requests drawn from A
NextWith(A) ==
  \/ \E u \in Users, title \in Titles, type \in Types, tabOk \in BOOLEAN, orgOk \in BOOLEAN :
       CreateTab(u, title, type, tabOk, orgOk)
  \/ \E u \in Users : ListTabs(u)
  \/ \E t \in ReqTabIds, u \in Users \cup {NoUser}, cookie \in Tokens \cup {NoToken} :
       GetTab(t, u, cookie)
  \/ \E t \in ReqTabIds, u \in Users \cup {NoUser}, name \in Names \cup {NoName},
        token \in Tokens \cup {NoToken}, newToken \in Tokens, ok \in BOOLEAN :
       Join(t, u, name, token, newToken, ok)
  \/ \E t \in ReqTabIds, u \in Users \cup {NoUser}, a \in A, ok \in BOOLEAN :
       AddExpense(t, u, a, ok)
  \/ \E t \in ReqTabIds, u \in Users \cup {NoUser}, cookie \in Tokens \cup {NoToken},
        to \in 1..MaxParts, a \in A, ok \in BOOLEAN :
       AddPayment(t, u, cookie, to, a, ok)
  \/ \E t \in ReqTabIds : SettlementBegin(t)
  \/ SettleStep
  \/ SettlementSend

\* amountCents is req.body.amountCents as received: the handlers test
\* neither its sign nor its type
AnyAmounts == {-25, 25}

NextAnyAmounts == NextWith(AnyAmounts)

\* ------------------------------------------------ the settlement alone
\* The settlement request on the stores of one shared bill: tab 1 has the
\* first k rows of Roster as participants, participant 1 has paid one
\* expense, and every other participant has sent one payment, either to
\* participant 1 or (toParticipantId is not checked) to the organizer of
\* tab 2.
MaxSettleParts == 4

Roster ==
  << Participant(1, "u1", "organizer", NoName, NoToken),
     Participant(1, "u2", "member", NoName, NoToken),
     Participant(1, NoUser, "guest", "ann", "k1"),
     Participant(1, NoUser, "guest", "ann", "k2"),
     Participant(1, "u3", "member", NoName, NoToken) >>

BillAmounts == {25, 60, 9000}
PaidBack == {0, 5, 25, 45, 3000}

InitSettle ==
  \E k \in 1..MaxSettleParts, bill \in BillAmounts :
    \E back \in [2..k -> PaidBack], out \in SUBSET (2..k) :
      /\ tabs = [t \in 1..2 |-> [creator |-> "u1", type |-> "one_bill",
                                 config |-> defaultConfig("one_bill")]]
      /\ participants = SubSeq(Roster, 1, k)
                          \o <<Participant(2, "u1", "organizer", NoName, NoToken)>>
      /\ expenses = <<[tab |-> 1, payer |-> 1, amount |-> bill]>>
      /\ payments = [i \in 1..(k - 1) |->
                       [tab |-> 1, from |-> i + 1,
                        to |-> IF i + 1 \in out THEN k + 1 ELSE 1,
                        amount |-> back[i + 1]]]
      /\ calc = NoCalc

NextSettle ==
  \/ \E t \in ReqTabIds : SettlementBegin(t)
  \/ SettleStep
  \/ SettlementSend

\* the worked example of two participants: every amountCents is 1000
NextTwoParty == NextWith({1000})

\* the worked example of three participants: every amountCents is 9000
NextThreeParty == NextWith({9000})

\* =================================================================
\* Properties
\* =================================================================

RECURSIVE SumOver(_, _)
SumOver(S, f) ==
  IF S = {} THEN 0
  ELSE LET x == Min(S) IN f[x] + SumOver(S \ {x}, f)

\* C1: in every reachable store, the balances of every tab's participants
\* (scaled by the participant count) sum to exactly zero.
C1_BalancesSumToZero ==
  \A t \in ReqTabIds : SumOver(TabParts(t), Balances(t)) = 0

\* C2: when the settlement loop has ended, the balances with every
\* suggested transfer applied (the loop applies each amount itself, to
\* debtor.balance and creditor.balance) are all below the threshold in
\* absolute value.  Stated for the tabs whose payments all stay between the
\* tab's own participants, so that the balances sum to zero.
C2_SuggestionsSettleTab ==
  (/\ Answering
   /\ \A i \in TabPayments(calc.tab) : payments[i].to \in TabParts(calc.tab))
    => \A p \in DOMAIN calc.balances :
         Abs(calc.balances[p]) < THRESHOLD * calc.n

\* C3: whatever getTab returns for an existing tab contains an organizer
\* participant row of the tab's creator.
C3_TabHasOrganizer ==
  \A t \in ReqTabIds, u \in Users \cup {NoUser}, cookie \in Tokens \cup {NoToken} :
    LET r == GetTabResult(t, u, cookie)
    IN r.status = 200 =>
         \E i \in r.rows : /\ participants[i].role = "organizer"
                           /\ participants[i].user = tabs[t].creator

\* C4: a mutating request that is answered with an error leaves the store
\* as it was.
C4_FailedMutationLeavesStore ==
  [][ /\ \A u \in Users, title \in Titles, type \in Types,
            tabOk \in BOOLEAN, orgOk \in BOOLEAN :
           (/\ store' # store
            /\ CreateTab(u, title, type, tabOk, orgOk))
             => CreateTabResult(u, title, type, tabOk, orgOk).status < 400
      /\ \A t \in ReqTabIds, u \in Users \cup {NoUser}, name \in Names \cup {NoName},
            token \in Tokens \cup {NoToken}, newToken \in Tokens, ok \in BOOLEAN :
           (/\ store' # store
            /\ Join(t, u, name, token, newToken, ok))
             => JoinResult(t, u, name, token, newToken, ok).status < 400
      /\ \A t \in ReqTabIds, u \in Users \cup {NoUser}, a \in Amounts, ok \in BOOLEAN :
           (/\ store' # store
            /\ AddExpense(t, u, a, ok))
             => AddExpenseResult(t, u, a, ok).status < 400
      /\ \A t \in ReqTabIds, u \in Users \cup {NoUser}, cookie \in Tokens \cup {NoToken},
            to \in PartIds, a \in Amounts, ok \in BOOLEAN :
           (/\ store' # store
            /\ AddPayment(t, u, cookie, to, a, ok))
             => AddPaymentResult(t, u, cookie, to, a, ok).status < 400
    ]_vars

\* C5: both endpoints of every stored payment are participants of the
\* payment's tab, and an addPayment whose recipient is not a participant of
\* the tab is answered 403 "Not participant" and writes no row.
C5_PaymentEndpointsInTab ==
  /\ \A i \in 1..Len(payments) :
       /\ payments[i].from \in TabParts(payments[i].tab)
       /\ payments[i].to \in TabParts(payments[i].tab)
  /\ \A t \in ReqTabIds, u \in Users \cup {NoUser}, cookie \in Tokens \cup {NoToken},
        to \in PartIds, a \in Amounts, ok \in BOOLEAN :
       to \notin TabParts(t) =>
         LET r == AddPaymentResult(t, u, cookie, to, a, ok)
         IN r.status = 403 /\ r.err = "Not participant" /\ r.rows = << >>

\* C6: the payer of every stored expense is a participant of the expense's
\* tab, and an addExpense by a user whose participant rows are all in other
\* tabs than the one named is answered 403 "Not participant" and writes no
\* row.
C6_ExpensePayerInTab ==
  /\ \A i \in 1..Len(expenses) :
       expenses[i].payer \in TabParts(expenses[i].tab)
  /\ \A t \in ReqTabIds, u \in Users, a \in Amounts, ok \in BOOLEAN :
       (\A i \in PartIds : participants[i].user = u => participants[i].tab # t) =>
         LET r == AddExpenseResult(t, u, a, ok)
         IN r.status = 403 /\ r.err = "Not participant" /\ r.rows = << >>

\* an expense has been stored, and some user is a participant of one tab
\* and not of another existing tab
C6_Witness ==
  /\ Len(expenses) > 0
  /\ \E u \in Users, t \in TabIds, t2 \in TabIds :
       /\ t # t2
       /\ FindByUser(t, u) = 0
       /\ FindByUser(t2, u) # 0

\* C7: no stored payment has the same participant as sender and recipient,
\* and an addPayment whose resolved sender is the requested recipient is
\* answered with a 4xx error and writes no row.
C7_NoSelfPayment ==
  /\ \A i \in 1..Len(payments) : payments[i].from # payments[i].to
  /\ \A t \in ReqTabIds, u \in Users, to \in PartIds, a \in Amounts, ok \in BOOLEAN :
       (FindByUser(t, u) # 0 /\ FindByUser(t, u) = to) =>
         LET r == AddPaymentResult(t, u, NoToken, to, a, ok)
         IN r.status \in 400..499 /\ r.rows = << >>

\* C8: joinAsMember (a join request of an authenticated user, with no name
\* and no token in its body) that succeeds, called again with the same tab
\* and user, reports the same participant id and writes no row.
C8_JoinIdempotent ==
  [][ participants' # participants =>
      \A t \in ReqTabIds, u \in Users, newToken \in Tokens, ok \in BOOLEAN :
        LET first == JoinResult(t, u, NoName, NoToken, newToken, ok)
        IN (first.status = 200 /\ Join(t, u, NoName, NoToken, newToken, ok))
          => LET second == JoinResult(t, u, NoName, NoToken, newToken, ok)'
             IN /\ second.status = 200
                /\ second.pid = first.pid
                /\ second.rows = << >>
    ]_vars

\* a user has joined a tab as member: the next join of that user to that
\* tab is the second call
C8_Witness ==
  \E t \in TabIds, u \in Users :
    LET r == JoinResult(t, u, NoName, NoToken, "k1", TRUE)
    IN /\ r.status = 200
       /\ r.rows = << >>
       /\ participants[r.pid].role = "member"

\* C9: no two participant rows have the same tab and the same registered
\* user.
C9_OneRowPerUserPerTab ==
  \A i \in PartIds, j \in PartIds :
    (/\ i # j
     /\ participants[i].user # NoUser
     /\ participants[i].tab = participants[j].tab)
      => participants[i].user # participants[j].user

\* a tab with its organizer and a member, and a user with rows in two tabs
C9_Witness ==
  /\ \E i \in PartIds, j \in PartIds :
       /\ participants[i].tab = participants[j].tab
       /\ participants[i].role = "organizer"
       /\ participants[j].role = "member"
  /\ \E i \in PartIds, j \in PartIds :
       /\ participants[i].tab # participants[j].tab
       /\ participants[i].user # NoUser
       /\ participants[i].user = participants[j].user

\* token tok is the magic link token of no participant row of tab t
UnknownToken(t, tok) ==
  \A i \in PartIds : ~(participants[i].tab = t /\ participants[i].token = tok)

\* C10 as claimed: every join request to an existing tab that supplies a
\* token matching no participant of that tab is answered "Invalid token" and
\* writes no participant row.
C10_UnknownTokenRejected ==
  \A t \in TabIds, u \in Users \cup {NoUser}, name \in Names \cup {NoName},
     token \in Tokens, newToken \in Tokens, ok \in BOOLEAN :
    UnknownToken(t, token) =>
      LET r == JoinResult(t, u, name, token, newToken, ok)
      IN r.err = "Invalid token" /\ r.rows = << >>

\* C10 as amended: a join request without an authenticated user that
\* supplies a token matching no participant of the named tab writes no
\* participant row and is answered 404: "Invalid token" when the tab
\* exists, "Tab not found" when it does not.
C10_UnknownTokenRejectedForGuests ==
  \A t \in ReqTabIds, name \in Names \cup {NoName},
     token \in Tokens, newToken \in Tokens, ok \in BOOLEAN :
    UnknownToken(t, token) =>
      LET r == JoinResult(t, NoUser, name, token, newToken, ok)
      IN /\ r.status = 404
         /\ r.err = IF t \in TabIds THEN "Invalid token" ELSE "Tab not found"
         /\ r.rows = << >>

\* a token issued to a guest of one tab is presented to another existing
\* tab, in which it is unknown, and is refused
C10_Witness ==
  \E i \in PartIds, t \in TabIds :
    /\ participants[i].token # NoToken
    /\ participants[i].tab # t
    /\ UnknownToken(t, participants[i].token)
    /\ JoinResult(t, NoUser, NoName, participants[i].token, "k1", TRUE).err
         = "Invalid token"

\* C11: the payer of every stored expense has role organizer or member, and
\* an addExpense with no logged-in user (a guest with its cookie, or an
\* anonymous caller), or of a user with no participant row in the tab, is
\* answered 403 and writes no row.
C11_OnlyUsersPayExpenses ==
  /\ \A i \in 1..Len(expenses) :
       participants[expenses[i].payer].role \in {"organizer", "member"}
  /\ \A t \in ReqTabIds, u \in Users \cup {NoUser}, a \in Amounts, ok \in BOOLEAN :
       (\/ u = NoUser
        \/ \A i \in PartIds : ~(participants[i].tab = t /\ participants[i].user = u))
         => LET r == AddExpenseResult(t, u, a, ok)
            IN r.status = 403 /\ r.rows = << >>

\* an expense is stored, and a tab has a guest, whose addExpense is refused
C11_Witness ==
  /\ Len(expenses) > 0
  /\ \E i \in PartIds, a \in Amounts :
       /\ participants[i].role = "guest"
       /\ AddExpenseResult(participants[i].tab, NoUser, a, TRUE).status = 403

\* C12: the amount of every stored expense and of every stored payment is
\* a non-negative integer, whatever amountCents the requests carried.
C12_AmountsNonNegative ==
  /\ \A i \in 1..Len(expenses) : expenses[i].amount \in Nat
  /\ \A i \in 1..Len(payments) : payments[i].amount \in Nat

\* C13: every amount of the suggestions and every balance in the answer of
\* the settlement request is a whole number of cents.  The model holds each
\* value times the participant count n: the value is whole exactly when its
\* model value is a multiple of n.
C13_SettlementValuesAreIntegers ==
  (Answering /\ calc.n > 0) =>
    /\ \A i \in 1..Len(calc.suggestions) : calc.suggestions[i].amount % calc.n = 0
    /\ \A p \in DOMAIN calc.balances : calc.balances[p] % calc.n = 0

\* tab t has exactly the participants A and B, one expense, of 1000 and
\* paid by A, and one payment, of 1000 from B to A
TwoPartyExample(t, A, B) ==
  /\ A # B
  /\ TabParts(t) = {A, B}
  /\ \E e \in TabExpenses(t) :
       /\ TabExpenses(t) = {e}
       /\ expenses[e].payer = A
       /\ expenses[e].amount = 1000
  /\ \E q \in TabPayments(t) :
       /\ TabPayments(t) = {q}
       /\ payments[q].from = B
       /\ payments[q].to = A
       /\ payments[q].amount = 1000

\* C14 as claimed: in the two-party example the balances computed from the
\* store are A = -500 and B = +500, and the settlement ends with exactly one
\* suggestion, from B to A, of 500.
C14_ExampleTransferFromBToA ==
  \A t \in TabIds, A \in PartIds, B \in PartIds :
    TwoPartyExample(t, A, B) =>
      /\ ScaledBalance(t, A) = -500 * Count(t)
      /\ ScaledBalance(t, B) = 500 * Count(t)
      /\ (Answering /\ calc.tab = t) =>
           calc.suggestions = <<[from |-> Label(B), to |-> Label(A),
                                 amount |-> 500 * Count(t)]>>

\* C14 as amended: in the two-party example the balances computed from the
\* store are A = -500 and B = +500, and the settlement ends with exactly one
\* suggestion, from A (the debtor) to B (the creditor), of 500.
C14_ExampleTransferFromAToB ==
  \A t \in TabIds, A \in PartIds, B \in PartIds :
    TwoPartyExample(t, A, B) =>
      /\ ScaledBalance(t, A) = -500 * Count(t)
      /\ ScaledBalance(t, B) = 500 * Count(t)
      /\ (Answering /\ calc.tab = t) =>
           calc.suggestions = <<[from |-> Label(A), to |-> Label(B),
                                 amount |-> 500 * Count(t)]>>

\* the settlement of a two-party example tab has ended with one suggestion
C14_Witness ==
  /\ Answering
  /\ Len(calc.suggestions) = 1
  /\ \E A \in PartIds, B \in PartIds : TwoPartyExample(calc.tab, A, B)

\* tab t has exactly the participants A, B and C, one expense, of 9000 and
\* paid by A, and no payment
ThreePartyExample(t, A, B, C) ==
  /\ A # B /\ A # C /\ B < C
  /\ TabParts(t) = {A, B, C}
  /\ \E e \in TabExpenses(t) :
       /\ TabExpenses(t) = {e}
       /\ expenses[e].payer = A
       /\ expenses[e].amount = 9000
  /\ TabPayments(t) = {}

\* C15: in the three-party example the balances computed from the store are
\* A = +6000, B = -3000 and C = -3000, and the settlement ends with exactly
\* two suggestions, B to A of 3000 and C to A of 3000, in either order.
C15_ExampleTwoTransfersToA ==
  \A t \in TabIds, A \in PartIds, B \in PartIds, C \in PartIds :
    ThreePartyExample(t, A, B, C) =>
      /\ ScaledBalance(t, A) = 6000 * Count(t)
      /\ ScaledBalance(t, B) = -3000 * Count(t)
      /\ ScaledBalance(t, C) = -3000 * Count(t)
      /\ (Answering /\ calc.tab = t) =>
           LET fromB == [from |-> Label(B), to |-> Label(A), amount |-> 3000 * Count(t)]
               fromC == [from |-> Label(C), to |-> Label(A), amount |-> 3000 * Count(t)]
           IN calc.suggestions \in {<<fromB, fromC>>, <<fromC, fromB>>}

\* the settlement of a three-party example tab has ended with two suggestions
C15_Witness ==
  /\ Answering
  /\ Len(calc.suggestions) = 2
  /\ \E A \in PartIds, B \in PartIds, C \in PartIds :
       ThreePartyExample(calc.tab, A, B, C)

\* token tok is the magic link token of some participant row
TokenInUse(tok) == \E i \in PartIds : participants[i].token = tok

\* C16: no two guest rows hold the same token, and a guest join (a name, no
\* user, no token, no other database failure) whose random token is
\* already in use, while an unused token exists, still succeeds: it writes
\* one guest row, with a token that was not in use.
C16_TokenCollisionRetried ==
  /\ \A i \in PartIds, j \in PartIds :
       (i # j /\ participants[i].role = "guest" /\ participants[j].role = "guest")
         => participants[i].token # participants[j].token
  /\ \A t \in TabIds, name \in Names, newToken \in Tokens :
       (/\ TokenInUse(newToken)
        /\ \E free \in Tokens : ~TokenInUse(free)
        /\ Len(participants) < MaxParts)
         => LET r == JoinResult(t, NoUser, name, NoToken, newToken, TRUE)
            IN /\ r.status = 200
               /\ Len(r.rows) = 1
               /\ r.rows[1].role = "guest"
               /\ ~TokenInUse(r.rows[1].token)

\* C17: every iteration of the settlement loop advances the debtor cursor
\* or the creditor cursor; while the handler is in or past the loop the
\* number of suggestions is at most |debtors| + |creditors| - 1 when both
\* lists are non-empty and zero when one is empty; and a loop that has
\* started ends.
C17_LoopTerminates ==
  /\ [][SettleStep => (calc'.d > calc.d \/ calc'.c > calc.c)]_vars
  /\ [](calc.pc = "loop" =>
          Len(calc.suggestions) <=
            IF Len(calc.debtors) > 0 /\ Len(calc.creditors) > 0
            THEN Len(calc.debtors) + Len(calc.creditors) - 1 ELSE 0)
  /\ (calc.pc = "loop" ~> Answering)

\* the loop has ended after as many iterations as the bound allows, more
\* than one, having advanced each cursor at least once
C17_Witness ==
  /\ Answering
  /\ Len(calc.suggestions) > 1
  /\ Len(calc.suggestions) = Len(calc.debtors) + Len(calc.creditors) - 1
  /\ calc.d > 1
  /\ calc.c > 1

\* C18: the balances sent with the suggestions are the balances computed
\* from the store, paid(p) - fairShare for every participant of the tab:
\* the loop has not changed them.
C18_ReportedBalancesAsComputed ==
  Answering => calc.balances = Balances(calc.tab)

\* the participants of tab t whose computed balance is below minus the
\* threshold, and those whose computed balance is above it
Owing(t) == {p \in TabParts(t) : ScaledBalance(t, p) < -(THRESHOLD * Count(t))}
Owed(t) == {p \in TabParts(t) : ScaledBalance(t, p) > THRESHOLD * Count(t)}

\* C19: every iteration of the loop emits one transfer, named from the
\* debtor and to the creditor under the cursors; these are two different
\* participants, the first with a computed balance below -10 and the
\* second with a computed balance above +10, and the amount is at least 10.
\* The transfers emitted so far that leave a display identity total at most
\* the absolute computed balances of the debtors so named, and those that
\* reach a display identity total at most the computed balances of the
\* creditors so named (one debtor, one creditor, when the name is borne by
\* one participant).
C19_TransfersFromDebtorsToCreditors ==
  /\ [][SettleStep =>
          LET debtor == calc.debtors[calc.d]
              creditor == calc.creditors[calc.c]
              emitted == calc'.suggestions[Len(calc'.suggestions)]
          IN /\ Len(calc'.suggestions) = Len(calc.suggestions) + 1
             /\ emitted.from = Label(debtor)
             /\ emitted.to = Label(creditor)
             /\ debtor # creditor
             /\ debtor \in Owing(calc.tab)
             /\ creditor \in Owed(calc.tab)
             /\ emitted.amount >= THRESHOLD * calc.n
      ]_vars
  /\ [](calc.pc = "loop" =>
          \A p \in TabParts(calc.tab) :
            LET leaving == {i \in 1..Len(calc.suggestions) :
                              calc.suggestions[i].from = Label(p)}
                reaching == {i \in 1..Len(calc.suggestions) :
                               calc.suggestions[i].to = Label(p)}
                owing == {q \in Owing(calc.tab) : Label(q) = Label(p)}
                owed == {q \in Owed(calc.tab) : Label(q) = Label(p)}
            IN /\ SumAmounts(calc.suggestions, leaving)
                    <= -SumOver(owing, Balances(calc.tab))
               /\ SumAmounts(calc.suggestions, reaching)
                    <= SumOver(owed, Balances(calc.tab)))

\* the loop has ended having split what one registered debtor owes over two
\* transfers
C19_Witness ==
  /\ Answering
  /\ \E i \in 1..Len(calc.suggestions), j \in 1..Len(calc.suggestions) :
       /\ i # j
       /\ calc.suggestions[i].from = calc.suggestions[j].from
       /\ calc.suggestions[i].from.kind = "id"
       /\ calc.suggestions[i].to # calc.suggestions[j].to

Spec == Init /\ [][Next]_vars

\* the requests carry any amountCents
SpecAnyAmounts == Init /\ [][NextAnyAmounts]_vars

\* the requests carry the amount of the two-party worked example
SpecTwoParty == Init /\ [][NextTwoParty]_vars

\* the requests carry the amount of the three-party worked example
SpecThreeParty == Init /\ [][NextThreeParty]_vars

\* the settlement alone.  The handler is one synchronous callback: once it
\* has started, the loop iterates and the answer is sent without yielding.
SpecSettle ==
  /\ InitSettle
  /\ [][NextSettle]_vars
  /\ WF_vars(SettleStep)
  /\ WF_vars(SettlementSend)
====
